---- MODULE Spec2Model ----
(***************************************************************************)
(* A model of the C shell of src/cshell.c: the destructive tokenizer and   *)
(* frame parser (parseInput), the driver loop of main, the two executors   *)
(* (executeCommand, executeCommandPipe), the cd builtin (changeDirectory)   *)
(* and the single-slot pipe relay (_pipe_arr, is_piped, pipeReset).        *)
(*                                                                         *)
(* C strings are sequences of one-character strings; the line buffer keeps *)
(* the terminators strsep writes into it.  Pointers into the line buffer   *)
(* are indices (0 is the null pointer).                                    *)
(***************************************************************************)
EXTENDS Integers, Sequences, FiniteSets, Bags, TLC

VARIABLES
    pc,          \* position of the interpreter process in main
    buf,         \* the heap buffer getline filled (characters and terminators)
    line,        \* main's `line` pointer: an index into buf, 0 for null
    cmd,         \* the frame of the current loop iteration (_xcmf cmd)
    directive,   \* main's `directive`
    is_piped,    \* the global is_piped
    _pipe_arr,   \* the global _pipe_arr[2]
    fdt,         \* open descriptors of the interpreter: fd -> [pipe, end]
    pipes,       \* kernel pipes: id -> [data, writers]
    fg,          \* the child the interpreter forked last in an executor
    prevFg,      \* the one before it
    bg,          \* bag of the children forked for Parallel frames
    cwd,         \* working directory of the interpreter
    env_HOME,    \* getenv("HOME")
    inToks,      \* history: the tokens the current line was typed from
    parsed,      \* history: results of the parseInput calls of this line
    last,        \* history: what the last dispatch of this line did
    hist,        \* history: resource failure, Parallel dispatch, undefined op
    budget,      \* frames and failed allocations left to this run
    mem          \* the allocator of the interpreter process

vars == <<pc, buf, line, cmd, directive, is_piped, _pipe_arr, fdt, pipes, fg,
          prevFg, bg, cwd, env_HOME, inToks, parsed, last, hist, budget, mem>>

-----------------------------------------------------------------------------
(* Bounds of the model.                                                    *)

MaxParseTokens == 4    \* tokens per line in the parser specification
MaxFrames == 2         \* frames typed, plus allocations failed, in one run
MaxOut == 2            \* bytes an external command writes to its stdout
PipeCap == 1           \* bytes a pipe buffers before its writer blocks
MaxStages == 3         \* frames of a line in the pipeline specification
MaxLong == 13          \* tokens after the command in the long-line specification

(* Program constants.                                                      *)

ARGSMAX == 10
OPTSMAX == 10
MAX_PATH_LEN == 50000
UINT8 == 256
WORD == 8                    \* sizeof(__string)
LINE_BUF == 120               \* bytes of the buffer getline allocates
STDIN_BUF == 1024            \* bytes of the buffer of stdin, a terminal
FILE_BYTES == 472            \* bytes of the stream perror opens
ERR_BUF == 1024              \* bytes of the buffer of that stream
TCACHE == 7                  \* freed blocks of one size free keeps apart
PATH_MAX == 4096             \* bytes of the longest path chdir takes
SIGSEGV == 11                \* the signal of a read through the null pointer
SIGABRT == 6                 \* the signal free ends the process with

-----------------------------------------------------------------------------
(* Strings.                                                                *)

NUL == "NUL"                 \* the terminator '\0'
NULL == <<"NULL">>           \* the null pointer, where a string is expected
NULLS == <<NULL>>            \* the null pointer, where strings are expected

Chars(s) == [i \in 1..Len(s) |-> SubSeq(s, i, i)]

EmptyMap == [x \in {} |-> 0]

Restrict(f, S) == [x \in S |-> f[x]]

RECURSIVE Join(_)
Join(toks) ==
    IF toks = <<>> THEN <<>>
    ELSE IF Len(toks) = 1 THEN Chars(toks[1])
    ELSE Chars(toks[1]) \o <<" ">> \o Join(Tail(toks))

\* strlen of the C string that starts at index p of b
strlen(b, p) ==
    (CHOOSE q \in p..Len(b) : b[q] = NUL /\ \A r \in p..(q-1) : b[r] # NUL) - p

\* the C string that starts at index p of b, without its terminator
CStr(b, p) == SubSeq(b, p, p + strlen(b, p) - 1)

\* leftTrim: skip the leading blanks and move the rest, terminator included
leftTrim(str) ==
    LET len == strlen(str, 1)
        i == CHOOSE k \in 0..len :
                 /\ \A j \in 1..k : str[j] = " "
                 /\ (k = len \/ str[k+1] # " ")
    IN  IF i > 0 THEN SubSeq(str, i + 1, len + 1) ELSE SubSeq(str, 1, len + 1)

\* rightTrim: overwrite the trailing blanks with terminators
rightTrim(str) ==
    LET len == strlen(str, 1)
        keep == CHOOSE k \in 0..len :
                    /\ \A j \in (k+1)..len : str[j] = " "
                    /\ (k = 0 \/ str[k] # " ")
    IN  SubSeq(str, 1, keep) \o <<NUL>>

\* getline, the newline strip and the two trims of main
TrimmedLine(raw) ==
    LET read == Len(raw)
        got == raw \o <<NUL>>
        cut == IF got[read] = "\n" THEN [got EXCEPT ![read] = NUL] ELSE got
    IN  rightTrim(leftTrim(cut))

-----------------------------------------------------------------------------
(* The cursor tokenizer.                                                   *)

\* a tokenizer that leaves the cursor on the terminator it wrote
strsepMut(b, p) ==
    IF p = 0 THEN [tok |-> 0, buf |-> b, ptr |-> 0]
    ELSE LET q == CHOOSE k \in p..Len(b) :
                      /\ b[k] \in {" ", NUL}
                      /\ \A r \in p..(k-1) : b[r] \notin {" ", NUL}
         IN  IF b[q] = " "
             THEN [tok |-> p, buf |-> [b EXCEPT ![q] = NUL], ptr |-> q]
             ELSE [tok |-> p, buf |-> b, ptr |-> 0]

\* strsep(&p, " "): the token starts at p; the separator becomes a terminator
strsep(b, p) ==
    IF p = 0 THEN [tok |-> 0, buf |-> b, ptr |-> 0]
    ELSE LET q == CHOOSE k \in p..Len(b) :
                      /\ b[k] \in {" ", NUL}
                      /\ \A r \in p..(k-1) : b[r] \notin {" ", NUL}
         IN  IF b[q] = " "
             THEN [tok |-> p, buf |-> [b EXCEPT ![q] = NUL], ptr |-> q + 1]
             ELSE [tok |-> p, buf |-> b, ptr |-> 0]

-----------------------------------------------------------------------------
(* The heap.                                                               *)

\* Memory is counted in words from the first block the process is given.  A
\* block of n bytes takes ChunkWords(n) words: its contents, rounded up to a
\* multiple of 16 bytes, the last word being the bookkeeping of the block
\* that follows it.
ChunkWords(bytes) ==
    LET c == ((bytes + WORD + 15) \div 16) * 16
    IN  (IF c < 32 THEN 32 ELSE c) \div WORD

\* the blocks of c words in a list of freed blocks, the one freed last first
Bin(b, c) == IF c \in DOMAIN b THEN b[c] ELSE <<>>

PutBin(b, c, blocks) ==
    IF blocks = <<>> THEN Restrict(b, DOMAIN b \ {c}) ELSE (c :> blocks) @@ b

Reverse(q) == [i \in 1..Len(q) |-> q[Len(q) + 1 - i]]

\* the allocator before the first allocation: tc holds, for each size, the
\* blocks freed last (at most TCACHE), fb those freed while tc was full, top
\* is the first word never handed out, line the block of the line buffer
NoMem == [tc |-> EmptyMap, fb |-> EmptyMap, top |-> 0, line |-> 0]

\* malloc(bytes): the block freed last of that size; when tc is empty the
\* block at the head of fb, the ones behind it moving to tc one by one; a
\* block at the top of the heap when both are empty
Malloc(m, bytes) ==
    LET c == ChunkWords(bytes)
        t == Bin(m.tc, c)
        f == Bin(m.fb, c)
        k == IF Len(f) - 1 < TCACHE THEN Len(f) - 1 ELSE TCACHE
    IN  IF t # <<>>
        THEN [at |-> Head(t), mem |-> [m EXCEPT !.tc = PutBin(@, c, Tail(t))]]
        ELSE IF f # <<>>
        THEN [at |-> Head(f),
              mem |-> [m EXCEPT
                          !.tc = PutBin(@, c, Reverse(SubSeq(f, 2, k + 1))),
                          !.fb = PutBin(@, c, SubSeq(f, k + 2, Len(f)))]]
        ELSE [at |-> m.top, mem |-> [m EXCEPT !.top = @ + c]]

Freed(m) ==
    UNION {UNION {{b[c][i] : i \in 1..Len(b[c])} : c \in DOMAIN b} :
              b \in {m.tc, m.fb}}

\* free(at) of a block of c words; free(NULL) does nothing, and a block that
\* is free already is left where it is
Free(m, at, c) ==
    IF at = 0 \/ at \in Freed(m) THEN m
    ELSE IF Len(Bin(m.tc, c)) < TCACHE
    THEN [m EXCEPT !.tc = PutBin(@, c, <<at>> \o Bin(m.tc, c))]
    ELSE [m EXCEPT !.fb = PutBin(@, c, <<at>> \o Bin(m.fb, c))]

\* perror(msg) of the interpreter, whose standard input and standard error
\* are the terminal it was started on: perror opens a stream of its own on a
\* copy of descriptor 2 (fdopen), which allocates the stream and its buffer,
\* and closes it, which frees the buffer and then the stream
Perror(m) ==
    LET f == Malloc(m, FILE_BYTES)
        b == Malloc(f.mem, ERR_BUF)
    IN  Free(Free(b.mem, b.at, ChunkWords(ERR_BUF)),
             f.at, ChunkWords(FILE_BYTES))

\* the frees of a sequence of blocks [at, c], in order
RECURSIVE FreeAll(_, _)
FreeAll(m, blocks) ==
    IF blocks = <<>> THEN m
    ELSE FreeAll(Free(m, Head(blocks).at, Head(blocks).c), Tail(blocks))

-----------------------------------------------------------------------------
(* The frame parser.                                                       *)

\* the bytes of a pointer, read as characters
Garbage == <<"GARBAGE">>

\* What a frame holds in the heap.  cmd, args, opts: the blocks _Command,
\* _Args and _Opts point to (0: null); ptr: the first copy of the command
\* when the scan replaced it; file: the copy of an embedded target; slot: the
\* pointer each written word of memory holds; over: the written words that
\* lie outside the array they were written through; str: the copied strings,
\* each with the block it lies in and the words of that block; gone: the
\* blocks the call itself freed.
NullStore ==
    [cmd |-> 0, args |-> 0, opts |-> 0, ptr |-> 0, file |-> 0,
     slot |-> EmptyMap, over |-> {}, str |-> <<>>, gone |-> {}]

\* the frame as parseInput initialises it
NullFrame ==
    [_Command |-> NULL, _Cmf_Len |-> 0, _Args |-> NULLS, _Arg_Cnt |-> 0,
     _Opts |-> NULLS, _Opt_Cnt |-> 0, redirection_file |-> NULL,
     store |-> NullStore]

\* the directive a control token stands for, "" for any other token
OperatorDirectiveMut(tok) ==
    IF tok = Chars("&&") THEN "SEQUENTIAL"
    ELSE IF tok = Chars("##") THEN "PARALLEL"
    ELSE IF tok = Chars("|") THEN "PIPELINE"
    ELSE ""

OperatorDirective(tok) ==
    IF tok = Chars("&&") THEN "PARALLEL"
    ELSE IF tok = Chars("##") THEN "SEQUENTIAL"
    ELSE IF tok = Chars("|") THEN "PIPELINE"
    ELSE ""

\* the string a pointer of the frame points to
Content(store, at) ==
    IF at = 0 THEN NULL
    ELSE store.str[CHOOSE k \in 1..Len(store.str) : store.str[k].at = at].s

\* the words of the block a pointer of the frame points to
Words(store, at) ==
    IF at = 0 THEN 0
    ELSE store.str[CHOOSE k \in 1..Len(store.str) : store.str[k].at = at].c

\* malloc(bytes) that returns null when ok is FALSE
Alloc(m, bytes, ok) ==
    IF ok THEN Malloc(m, bytes) ELSE [at |-> 0, mem |-> m]

\* the store with the string tok in the block a
Copied(store, a, tok) ==
    IF a.at = 0 THEN [store |-> store, mem |-> a.mem, at |-> 0]
    ELSE [store |-> [store EXCEPT
                        !.str = Append(@, [s |-> tok, at |-> a.at,
                                           c |-> ChunkWords(Len(tok) + 1)])],
          mem |-> a.mem, at |-> a.at]

\* strdup(tok): a block with the copy, or the null pointer when the
\* allocation fails (ok = FALSE)
Strdup(store, m, tok, ok) == Copied(store, Alloc(m, Len(tok) + 1, ok), tok)

\* a copied string after a pointer was written into word w: when the word
\* lies in the characters of the string, they read as the pointer from there
Smeared(x, w) ==
    LET j == w - x.at
    IN  IF j >= 0 /\ j <= x.c - 2 /\ Len(x.s) >= WORD * j
        THEN [x EXCEPT !.s = SubSeq(x.s, 1, WORD * j) \o Garbage]
        ELSE x

\* the store of the pointer p into word w of memory
Stored(store, w, p) ==
    [store EXCEPT !.slot = (w :> p) @@ @,
                  !.str = [k \in 1..Len(store.str) |-> Smeared(store.str[k], w)]]

\* cmd->_Args[i] and cmd->_Opts[i] for the indexes below the counts
ArgsView(f) ==
    IF f.store.args = 0 THEN NULLS
    ELSE [i \in 1..f._Arg_Cnt |->
             Content(f.store, f.store.slot[f.store.args + i - 1])]

OptsView(f) ==
    IF f.store.opts = 0 THEN NULLS
    ELSE [i \in 1..f._Opt_Cnt |->
             Content(f.store, f.store.slot[f.store.opts + i - 1])]

\* the fields of the frame as the memory of the process has them
Viewed(f) ==
    [f EXCEPT !._Command = Content(f.store, f.store.cmd),
              !._Args = ArgsView(f),
              !._Opts = OptsView(f),
              !.redirection_file =
                  IF f.store.file # 0 THEN Content(f.store, f.store.file) ELSE @]

\* the frame f, its count already raised, after the pointer to the copy d
\* was stored in word w
Pushed(f, d, w) ==
    [cmd |-> Viewed([f EXCEPT !.store = Stored(d.store, w, d.at)]),
     mem |-> d.mem, word |-> w]

\* cmd->_Args[cmd->_Arg_Cnt++] = strdup(token), at the allocator m; word is
\* the word of memory the pointer was stored in
PushArg(f, tok, m, ok) ==
    Pushed([f EXCEPT !._Arg_Cnt = (@ + 1) % UINT8],
           Strdup(f.store, m, tok, ok), f.store.args + f._Arg_Cnt)

\* cmd->_Opts[cmd->_Opt_Cnt++] = strdup(token)
PushOpt(f, tok, m, ok) ==
    Pushed([f EXCEPT !._Opt_Cnt = (@ + 1) % UINT8],
           Strdup(f.store, m, tok, ok), f.store.opts + f._Opt_Cnt)

\* a store at index i of an array of n pointers lands outside the block of
\* the array, on the bookkeeping or the contents of the blocks after it
Corrupts(i, n) == i >= ChunkWords(n * WORD) - 1

\* word w belongs to the allocator: it is the bookkeeping of a free block, or
\* lies where no block has been handed out yet
Wild(m, w) ==
    \/ w >= m.top - 1
    \/ \E b \in Freed(m) : w \in (b - 1)..(b + 1)

\* the line buffer after a pointer was written into word w of memory: when
\* the word lies in the typed line, eight of its bytes are those of the pointer
LineAfterStore(b, m, w) ==
    LET j == w - m.line
        from == WORD * j + 1
        end == IF Len(b) > from + WORD - 1 THEN Len(b) ELSE from + WORD - 1
    IN  IF j >= 0 /\ j <= ChunkWords(LINE_BUF) - 2 /\ from <= Len(b)
        THEN [i \in 1..end |->
                 IF i < from THEN (IF i <= Len(b) THEN b[i] ELSE NUL)
                 ELSE IF i < from + 6 THEN "GARBAGE"
                 ELSE IF i < from + WORD THEN NUL
                 ELSE b[i]]
        ELSE b

\* the text after the '>' found at 0-based position i of the command token
EmbeddedTargetMut(ptr, i) == SubSeq(ptr, i + 1, Len(ptr))

EmbeddedTarget(ptr, i) == SubSeq(ptr, i + 2, Len(ptr))

\* A parseInput call in progress: cmd is the frame, buf and line the line
\* buffer and the cursor, mem the allocator, n the number of allocations the
\* call has made, fail the number of the one that returns null (0: none
\* does), nomem tells that it was made, ub names the undefined operations
\* performed, heap tells that a store went over the allocator's own words.
Entered(b, m, fail) ==
    [cmd |-> NullFrame, buf |-> b, line |-> 0, ub |-> {}, heap |-> FALSE,
     fail |-> fail, nomem |-> FALSE, mem |-> m, n |-> 0]

\* the call after an allocation that returned a
Charged(st, a) ==
    [st EXCEPT !.mem = a.mem, !.n = @ + 1, !.nomem = @ \/ a.at = 0]

\* the result of a parseInput call; fault tells that the call wrote or read
\* through the null pointer
Returned(d, st, f, m) ==
    [directive |-> d, cmd |-> f, buf |-> st.buf, line |-> st.line,
     ub |-> st.ub, heap |-> st.heap, nomem |-> st.nomem, fault |-> FALSE,
     mem |-> m]

Faulted(st) ==
    [Returned("INIT", st, st.cmd, st.mem) EXCEPT !.fault = TRUE, !.nomem = TRUE]

\* cmd->redirection_file = strdup(ptr + i + 1), d being the copy
TargetCopied(st, d) ==
    Returned("TERMINATED", st,
             Viewed([st.cmd EXCEPT !.store = [d.store EXCEPT !.file = d.at]]),
             d.mem)

\* the command ptr cut at the '>' at position i into the block a, then the
\* copy of the text after the '>'
CommandCut(st, ptr, i, a) ==
    LET cut == [st.cmd.store EXCEPT
                   !.ptr = st.cmd.store.cmd,
                   !.cmd = a.at,
                   !.str = Append(@, [s |-> SubSeq(ptr, 1, i), at |-> a.at,
                                      c |-> ChunkWords(i + 1)])]
    IN  IF i = Len(ptr) - 1
        THEN Returned("TERMINATED", st,
                      Viewed([st.cmd EXCEPT !.store = cut]), a.mem)
        ELSE IF st.fail = st.n + 2
        THEN [Returned("EXCEPTION", st,
                       Viewed([st.cmd EXCEPT !.store = cut,
                                             !.redirection_file = NULL]),
                       a.mem)
                 EXCEPT !.nomem = TRUE]
        ELSE TargetCopied(st, Strdup(cut, a.mem, EmbeddedTarget(ptr, i), TRUE))

\* the scan of the command for an embedded '>' (after the token loop): the
\* read of a null command and the write through a null malloc result end the
\* process
ScanCommand(st) ==
    LET ptr == st.cmd._Command
        hits == {k \in 1..Len(ptr) : ptr[k] = ">"}
        i == (CHOOSE k \in hits : \A h \in hits : k <= h) - 1
    IN  IF st.cmd.store.cmd = 0 THEN Faulted(st)
        ELSE IF hits = {} THEN Returned("TERMINATED", st, st.cmd, st.mem)
        ELSE IF st.fail = st.n + 1 THEN Faulted(st)
        ELSE CommandCut(st, ptr, i, Malloc(st.mem, i + 1))

\* the call after the store of a token copy: p is the result of the store at
\* index i of an array of n pointers, b and l the line and its cursor, u the
\* undefined operations of the step
Advance(st, p, b, l, i, n, u) ==
    [st EXCEPT !.cmd = IF Corrupts(i, n)
                       THEN [p.cmd EXCEPT !.store.over = @ \cup {p.word}]
                       ELSE p.cmd,
               !.mem = p.mem, !.buf = b, !.line = l,
               !.n = @ + 1,
               !.nomem = @ \/ st.fail = st.n + 1,
               !.heap = @ \/ (Corrupts(i, n) /\ Wild(p.mem, p.word)),
               !.ub = @ \cup u]

\* the redirection token: its copy p is stored, an earlier target is freed,
\* the next token of the line becomes the target
Redirection(st, s, p) ==
    LET t == strsep(LineAfterStore(s.buf, st.mem, p.word), s.ptr)
        file == IF t.tok = 0 THEN NULL ELSE CStr(t.buf, t.tok)
    IN  Advance(st, [p EXCEPT !.cmd.redirection_file = file],
                t.buf, t.ptr, st.cmd._Arg_Cnt, ARGSMAX,
                (IF st.cmd._Arg_Cnt >= ARGSMAX
                 THEN {"args_out_of_bounds"} ELSE {})
                \cup (IF st.cmd.redirection_file # NULL
                      THEN {"free_of_line_pointer"} ELSE {}))

\* an option token, its copy p stored
Option(st, s, p) ==
    Advance(st, p, LineAfterStore(s.buf, st.mem, p.word), s.ptr,
            st.cmd._Opt_Cnt, OPTSMAX,
            IF st.cmd._Opt_Cnt >= OPTSMAX THEN {"opts_out_of_bounds"} ELSE {})

\* an argument token, its copy p stored
Argument(st, s, p) ==
    Advance(st, p, LineAfterStore(s.buf, st.mem, p.word), s.ptr,
            st.cmd._Arg_Cnt, ARGSMAX,
            IF st.cmd._Arg_Cnt >= ARGSMAX THEN {"args_out_of_bounds"} ELSE {})

\* the while loop of parseInput over the tokens after the command, then the
\* scan; s is the result of the strsep of the loop condition
RECURSIVE ParseLoop(_)
ParseToken(st, s, token) ==
    IF OperatorDirective(token) # ""
    THEN Returned(OperatorDirective(token),
                  [st EXCEPT !.buf = s.buf, !.line = s.ptr], st.cmd, st.mem)
    ELSE IF token = Chars(">")
    THEN ParseLoop(Redirection(st, s, PushArg(st.cmd, token, st.mem,
                                              st.fail # st.n + 1)))
    ELSE IF token # <<>> /\ token[1] = "-"
    THEN ParseLoop(Option(st, s, PushOpt(st.cmd, token, st.mem,
                                         st.fail # st.n + 1)))
    ELSE ParseLoop(Argument(st, s, PushArg(st.cmd, token, st.mem,
                                           st.fail # st.n + 1)))

ParseLoop(st) ==
    LET s == strsep(st.buf, st.line)
    IN  IF s.tok = 0 THEN ScanCommand(st)
        ELSE ParseToken(st, s, CStr(s.buf, s.tok))

\* token = strsep(_command, " "); cmd->_Command = strdup(token), d being the
\* copy; cmd->_Cmf_Len = strlen(token)
CommandCopied(st, s, d) ==
    [Charged(st, d) EXCEPT
        !.buf = s.buf, !.line = s.ptr,
        !.cmd = Viewed([@ EXCEPT !.store = [d.store EXCEPT !.cmd = d.at],
                                 !._Cmf_Len = strlen(s.buf, s.tok) % UINT8])]

\* cmd->_Args = malloc(ARGSMAX * sizeof(__string))
ArgsAllocated(st, a) ==
    [Charged(st, a) EXCEPT !.cmd = Viewed([@ EXCEPT !.store.args = a.at])]

\* cmd->_Opts = malloc(OPTSMAX * sizeof(__string))
OptsAllocated(st, a) ==
    [Charged(st, a) EXCEPT !.cmd = Viewed([@ EXCEPT !.store.opts = a.at])]

AllocArgs(st) ==
    ArgsAllocated(st, Alloc(st.mem, ARGSMAX * WORD, st.fail # st.n + 1))

AllocOpts(st) ==
    OptsAllocated(st, Alloc(st.mem, OPTSMAX * WORD, st.fail # st.n + 1))

\* the check of the two arrays: when one is null both are freed and the call
\* returns EXCEPTION, the frame keeping the pointers
ArraysChecked(st) ==
    IF st.cmd.store.args = 0 \/ st.cmd.store.opts = 0
    THEN Returned("EXCEPTION", st,
                  [st.cmd EXCEPT !.store.gone =
                                    {st.cmd.store.args, st.cmd.store.opts} \ {0}],
                  Free(Free(st.mem, st.cmd.store.args,
                            ChunkWords(ARGSMAX * WORD)),
                       st.cmd.store.opts, ChunkWords(OPTSMAX * WORD)))
    ELSE ParseLoop(st)

\* parseInput(&line, &cmd) on buffer b with cursor p at the allocator m,
\* where allocation number fail of the call returns null (0: none does).
\* The allocations of a call are, in order: the copy of the command, _Args,
\* _Opts, the copies of the tokens, the command cut at an embedded '>', the
\* copy of the embedded target.
CommandTaken(st, s) ==
    ArraysChecked(AllocOpts(AllocArgs(
        CommandCopied(st, s, Strdup(NullStore, st.mem, CStr(s.buf, s.tok),
                                    st.fail # 1)))))

parseInput(b, p, m, fail) ==
    IF p = 0 THEN Returned("EXCEPTION", Entered(b, m, fail), NullFrame, m)
    ELSE CommandTaken(Entered(b, m, fail), strsep(b, p))

\* the blocks the first n words of the array at base point to
Pointed(st, base, n) ==
    [i \in 1..n |-> [at |-> st.slot[base + i - 1],
                     c |-> Words(st, st.slot[base + i - 1])]]

\* the blocks main frees after a dispatch, in order: the command, what the
\* words of _Args below _Arg_Cnt point to, _Args, the same for _Opts
FrameFrees(f) ==
    LET st == f.store
    IN  <<[at |-> st.cmd, c |-> Words(st, st.cmd)]>>
        \o (IF st.args = 0 THEN <<>> ELSE Pointed(st, st.args, f._Arg_Cnt))
        \o <<[at |-> st.args, c |-> ChunkWords(ARGSMAX * WORD)]>>
        \o (IF st.opts = 0 THEN <<>> ELSE Pointed(st, st.opts, f._Opt_Cnt))
        \o <<[at |-> st.opts, c |-> ChunkWords(OPTSMAX * WORD)]>>

\* the frees of the frame end the process: a block is freed whose size, the
\* word before it, a store through one of the arrays has overwritten, or a
\* block is freed that is free already
FreesAbort(f) ==
    LET fr == FrameFrees(f)
    IN  \E k \in 1..Len(fr) :
           /\ fr[k].at # 0
           /\ \/ fr[k].at - 1 \in f.store.over
              \/ fr[k].at \in f.store.gone
              \/ \E j \in 1..(k - 1) : fr[j].at = fr[k].at

-----------------------------------------------------------------------------
(* The file system the interpreter runs in, and the cd builtin.            *)

Dirs == {Chars("/"), Chars("/h"), Chars("/h/b")}

\* the components of a path, split at '/'
RECURSIVE Components(_)
Components(path) ==
    IF path = <<>> THEN <<>>
    ELSE LET cut == {k \in 1..Len(path) : path[k] = "/"}
             q == IF cut = {} THEN Len(path) + 1
                  ELSE CHOOSE k \in cut : \A h \in cut : k <= h
         IN  <<SubSeq(path, 1, q - 1)>> \o Components(SubSeq(path, q + 1, Len(path)))

Parent(dir) ==
    LET cut == {k \in 1..Len(dir) : dir[k] = "/"}
        q == CHOOSE k \in cut : \A h \in cut : k >= h
    IN  IF q = 1 THEN Chars("/") ELSE SubSeq(dir, 1, q - 1)

\* the directory an absolute path leads to from dir, NULL if none
RECURSIVE Walk(_, _)
Walk(dir, comps) ==
    IF comps = <<>> THEN dir
    ELSE LET c == Head(comps) IN
         IF c = <<>> \/ c = Chars(".") THEN Walk(dir, Tail(comps))
         ELSE IF c = Chars("..") THEN Walk(Parent(dir), Tail(comps))
         ELSE LET sub == IF dir = Chars("/") THEN dir \o c
                         ELSE dir \o <<"/">> \o c
              IN  IF sub \in Dirs THEN Walk(sub, Tail(comps)) ELSE NULL

\* the directory chdir(path) changes to, NULL when it fails: a path of
\* PATH_MAX bytes with its terminator, or more, is refused unread
Resolve(path) ==
    IF Len(path) >= PATH_MAX THEN NULL
    ELSE Walk(Chars("/"), Components(path))

\* snprintf into abs_pth: the path, or NULL (return without chdir) when it
\* does not fit in MAX_PATH_LEN bytes with its terminator
Fits(path) == IF Len(path) >= MAX_PATH_LEN THEN NULL ELSE path

\* the path changeDirectory hands to chdir, as a plain shell would build it
CdPathMut(f, dir, home) ==
    IF f._Arg_Cnt = 0 \/ f._Args[1] = NULL THEN home
    ELSE IF f._Args[1] = Chars("..") THEN Fits(dir \o Chars("/.."))
    ELSE IF f._Args[1] # <<>> /\ f._Args[1][1] = "/" THEN f._Args[1]
    ELSE Fits(dir \o <<"/">> \o f._Args[1])

\* the path changeDirectory hands to chdir (dir is what getcwd returned),
\* NULL when it returns without calling chdir
CdPath(f, dir, home) ==
    IF f._Arg_Cnt = 0 \/ f._Args[1] = NULL THEN home
    ELSE IF f._Args[1] = Chars("..") THEN Fits(dir \o Chars("/.."))
    ELSE Fits(dir \o <<"/">> \o f._Args[1])

-----------------------------------------------------------------------------
(* Processes, pipes and descriptors.                                       *)

Programs == {Chars("a")}        \* the commands execvp finds

\* code: the exit code of a process that exited; sig: the signal that ended
\* it, 0 for none
NoChild ==
    [st |-> "none", stdin |-> 0, stdout |-> 0, toWrite |-> 0, wrote |-> <<>>,
     got |-> <<>>, code |-> 0, sig |-> 0, ran |-> FALSE]

\* a child whose code ended in exit(EXIT_FAILURE) before or instead of exec
FailedChild == [NoChild EXCEPT !.st = "zombie", !.code = 1]

\* a child that read through a null pointer before exec
FaultedChild == [NoChild EXCEPT !.st = "zombie", !.sig = SIGSEGV]

\* a child that runs the program it was started for
Running(in, out, n) ==
    [NoChild EXCEPT !.st = "run", !.stdin = in, !.stdout = out,
                    !.toWrite = n, !.ran = TRUE]

LowestFree(used, from) ==
    CHOOSE k \in from..(from + Cardinality(used)) :
        k \notin used /\ \A j \in from..(k-1) : j \in used

\* the pipes some descriptor or some running process still refers to
Live(ps, fds, f, b) ==
    LET procs == {c \in {f} \cup BagToSet(b) : c.st = "run"}
        used == {fds[d].pipe : d \in DOMAIN fds}
                \cup {c.stdin : c \in procs} \cup {c.stdout : c \in procs}
    IN  Restrict(ps, DOMAIN ps \cap used)

\* close(fd) in the interpreter
Close(fds, fd) == Restrict(fds, DOMAIN fds \ {fd})

\* pipeReset on the relay state r = [is_piped, arr, fdt, badclose]
pipeReset(r) ==
    LET a == r.arr
        f1 == IF a[1] # -1 THEN Close(r.fdt, a[1]) ELSE r.fdt
        f2 == IF a[2] # -1 THEN Close(f1, a[2]) ELSE f1
    IN  [is_piped |-> FALSE, arr |-> <<-1, -1>>, fdt |-> f2,
         badclose |-> \/ r.badclose
                      \/ (a[1] # -1 /\ a[1] \notin DOMAIN r.fdt)
                      \/ (a[2] # -1 /\ a[2] \notin DOMAIN f1)]

Relay == [is_piped |-> is_piped, arr |-> _pipe_arr, fdt |-> fdt,
          badclose |-> FALSE]

\* the positional arguments before the redirection token
RECURSIVE UpToRedirection(_)
UpToRedirection(args) ==
    IF args = <<>> \/ Head(args) = Chars(">") THEN <<>>
    ELSE <<Head(args)>> \o UpToRedirection(Tail(args))

\* what execvp reads of an argv array: the entries before the first null
RECURSIVE UpToNull(_)
UpToNull(av) ==
    IF av = <<>> \/ Head(av) = NULL THEN <<>>
    ELSE <<Head(av)>> \o UpToNull(Tail(av))

\* argv as the child of executeCommand builds it
BuildArgv(f) ==
    UpToNull(<<f._Command>> \o SubSeq(f._Opts, 1, f._Opt_Cnt)
                 \o UpToRedirection(SubSeq(f._Args, 1, f._Arg_Cnt)))

\* the strcmp of the argument loop of executeCommand reads a null argument
\* before it meets the redirection token
ArgvFaults(f) ==
    \E i \in 1..f._Arg_Cnt :
        /\ f._Args[i] = NULL
        /\ \A j \in 1..(i - 1) : f._Args[j] # Chars(">")

\* argv as the child of executeCommandPipe builds it
BuildArgvPipe(f) ==
    UpToNull(<<f._Command>> \o SubSeq(f._Opts, 1, f._Opt_Cnt)
                 \o SubSeq(f._Args, 1, f._Arg_Cnt))

\* the pipe the child of executeCommand reads its stdin from, 0 for none
SyncStdinMut(piped, arr, fds) == 0

SyncStdin(piped, arr, fds) ==
    IF piped /\ arr[1] \in DOMAIN fds THEN fds[arr[1]].pipe ELSE 0

\* what the child forked by executeCommand does up to and including execvp
SyncChildOutcomes(f, in) ==
    (IF f.redirection_file # NULL
     THEN {[child |-> FailedChild, argv |-> NULLS, exec |-> "none",
            diag |-> FALSE]}
     ELSE {})
    \cup
    (IF ArgvFaults(f)
     THEN {[child |-> FaultedChild, argv |-> NULLS, exec |-> "none",
            diag |-> FALSE]}
     ELSE IF f._Command \in Programs
     THEN {[child |-> Running(in, 0, 0), argv |-> BuildArgv(f),
            exec |-> "ok", diag |-> FALSE]}
     ELSE {[child |-> FailedChild, argv |-> BuildArgv(f), exec |-> "fail",
            diag |-> TRUE]})

\* a pipeline child whose execvp failed: exit(EXIT_FAILURE) writes the n
\* bytes the stdio buffer it inherited still holds to its stdout, the pipe;
\* the buffer is not larger than what an empty pipe takes
FlushingChild(p, n) ==
    IF n = 0 THEN FailedChild
    ELSE [NoChild EXCEPT !.st = "run", !.stdout = p, !.toWrite = n, !.code = 1]

\* what the child forked by executeCommandPipe does up to and including execvp
PipeChildOutcomes(f, p) ==
    IF f._Command \in Programs
    THEN {[child |-> Running(0, p, n), argv |-> BuildArgvPipe(f),
           exec |-> "ok", diag |-> FALSE] : n \in 0..MaxOut}
    ELSE {[child |-> FlushingChild(p, n), argv |-> BuildArgvPipe(f),
           exec |-> "fail", diag |-> FALSE] : n \in 0..PipeCap}

\* waitpid(pid, &status, 0) returns once the child has exited
ChildExitedMut(c) == c.st \in {"run", "zombie"}

ChildExited(c) == c.st = "zombie"

Reaped(c) == IF c.st = "zombie" THEN [c EXCEPT !.st = "reaped"] ELSE c

\* the loop condition of main's do-while
LoopNext(d) == IF d \notin {"TERMINATED", "EXCEPTION"} THEN "parse" ELSE "read"

\* the frees of frame f at the end of the loop body, then the loop
\* condition: the frees end the process when FreesAbort tells so; where a
\* call has written over the allocator's own words they end it or go unnoticed
AfterFrees(f, damaged, d) ==
    IF FreesAbort(f) THEN {"crashed"}
    ELSE IF damaged THEN {LoopNext(d), "crashed"}
    ELSE {LoopNext(d)}

NoLast ==
    [kind |-> "none", n |-> 0, forked |-> FALSE, argv |-> NULLS,
     exec |-> "none", diag |-> FALSE, code |-> 0, chdir |-> NULL,
     cwd0 |-> NULL, badclose |-> FALSE]

\* the record of a dispatch of the given kind for the frame parsed last
Did(kind) == [NoLast EXCEPT !.kind = kind, !.n = Len(parsed)]

\* the record of a dispatch that forked a child with outcome o
Forked(kind, o) ==
    [Did(kind) EXCEPT !.forked = TRUE, !.argv = o.argv, !.exec = o.exec,
                      !.diag = o.diag, !.code = o.child.code]

-----------------------------------------------------------------------------
(* The lines typed at the prompt.                                          *)

Ops == {"&&", "##", "|"}

MainFrames ==
    {<<"a">>, <<"x">>, <<"a", "-o", "b", ">", "f">>, <<"">>,
     <<"cd">>, <<"cd", "..">>, <<"cd", "/h">>, <<"exit">>}

\* the frames a line continues with after its second frame
CoreFrames == {<<"a">>, <<"x">>, <<"cd">>}

\* the lines of exactly n frames joined by control operators
RECURSIVE FrameLines(_)
FrameLines(n) ==
    IF n = 1 THEN MainFrames
    ELSE {l \o <<op>> \o f : l \in FrameLines(n - 1), op \in Ops,
                             f \in IF n = 2 THEN MainFrames ELSE CoreFrames}

\* the lines of n frames, with or without a dangling operator
MainLines(n) ==
    FrameLines(n) \cup {l \o <<op>> : l \in FrameLines(n), op \in Ops}

ParseTokens == {"a", "f", "-o", ">", "&&", "##", "|", ""}

RECURSIVE TokenLines(_)
TokenLines(n) ==
    IF n = 0 THEN {<<>>}
    ELSE LET shorter == TokenLines(n - 1)
         IN  shorter \cup {Append(l, t) : l \in {x \in shorter : Len(x) = n - 1},
                                           t \in ParseTokens}

\* lines of up to MaxParseTokens tokens, and commands with an embedded '>'
ParseLines ==
    TokenLines(MaxParseTokens)
    \cup {<<c \o ">" \o f>> : c \in {"a", "f"},
                               f \in {"", "a", "f", "-o", "&&", ">", "f>a"}}
    \cup {<<c, ">", "f>a">> : c \in {"a", "f"}}

-----------------------------------------------------------------------------
(* The interpreter process: main.                                          *)

Init ==
    /\ pc = "read"
    /\ buf = <<NUL>>
    /\ line = 0
    /\ cmd = NullFrame
    /\ directive = "INIT"
    /\ is_piped = FALSE
    /\ _pipe_arr = <<-1, -1>>
    /\ fdt = EmptyMap
    /\ pipes = EmptyMap
    /\ fg = NoChild
    /\ prevFg = NoChild
    /\ bg = EmptyBag
    /\ cwd = Chars("/h/b")
    /\ env_HOME \in {NULL, Chars("/h")}
    /\ inToks = <<>>
    /\ parsed = <<>>
    /\ last = NoLast
    /\ hist = [resFail |-> FALSE, par |-> FALSE, ub |-> FALSE,
               heap |-> FALSE, nomem |-> 0]
    /\ budget = MaxFrames
    /\ mem = NoMem

\* getline and the trims at the top of the loop of main; a `line` left inside
\* the old buffer is handed to getline as if it were a heap block, a null
\* `line` makes getline allocate LINE_BUF bytes, and the first read of the
\* process allocates the buffer of the input stream, a terminal, after them.
\* The lines
\* are shorter than LINE_BUF.  The frame and the directive of the line before
\* are dead by now.
ReadFrom(lines, n) ==
    /\ pc = "read"
    /\ n \in 1..budget
    /\ \E toks \in lines :
          /\ buf' = TrimmedLine(Join(toks) \o <<"\n">>)
          /\ inToks' = toks
    /\ line' = 1
    /\ \/ pc' = "parse"
       \/ (line # 0 \/ hist.heap) /\ pc' = "crashed"
    /\ budget' = budget - n
    /\ parsed' = <<>>
    /\ last' = NoLast
    /\ hist' = [hist EXCEPT !.par = FALSE, !.ub = @ \/ line # 0]
    /\ fg' = NoChild
    /\ prevFg' = NoChild
    /\ cmd' = NullFrame
    /\ directive' = "INIT"
    /\ mem' = IF line # 0 THEN mem
              ELSE LET a == Malloc(mem, LINE_BUF)
                       m == [a.mem EXCEPT !.line = a.at]
                   IN  IF mem.top = 0 THEN Malloc(m, STDIN_BUF).mem ELSE m
    /\ UNCHANGED <<is_piped, _pipe_arr, fdt, pipes, bg, cwd, env_HOME>>

\* the lines of the run, by their number of frames
LinesByFrames == [n \in 1..MaxFrames |-> MainLines(n)]

ReadLine == \E n \in 1..MaxFrames : ReadFrom(LinesByFrames[n], n)

\* getline fails: perror, free(line), exit(EXIT_FAILURE)
ReadEOF ==
    /\ pc = "read"
    /\ \/ pc' = "exited"
       \/ (line # 0 \/ hist.heap) /\ pc' = "crashed"
    /\ parsed' = <<>>
    /\ last' = NoLast
    /\ UNCHANGED <<buf, line, cmd, directive, is_piped, _pipe_arr, fdt, pipes,
                   fg, prevFg, bg, cwd, env_HOME, inToks, hist, budget, mem>>

\* main after the parseInput call that returned r, allocation number fail
\* of the call returning null.  A call that goes through the null pointer
\* ends the process; a free of a pointer into the line, a store over the
\* allocator's own words or an allocation after such a store either goes
\* unnoticed or ends it.
Return(r, fail) ==
    /\ fail # 0 => r.nomem
    /\ IF r.fault
       THEN /\ pc' = "crashed"
            /\ UNCHANGED <<buf, line, cmd, directive, parsed, mem>>
       ELSE /\ buf' = r.buf
            /\ line' = r.line
            /\ cmd' = r.cmd
            /\ directive' = r.directive
            /\ mem' = r.mem
            /\ parsed' = Append(parsed,
                                [cmd |-> r.cmd, directive |-> r.directive,
                                 rest |-> r.line, ub |-> r.ub])
            /\ \/ pc' = "dispatch"
               \/ /\ \/ "free_of_line_pointer" \in r.ub
                     \/ r.heap
                     \/ (line # 0 /\ hist.heap)
                  /\ pc' = "crashed"
    /\ hist' = [hist EXCEPT !.ub = @ \/ r.ub # {} \/ r.fault,
                            !.heap = @ \/ r.heap,
                            !.nomem = @ + (IF r.nomem THEN 1 ELSE 0)]
    /\ budget' = budget - (IF r.nomem THEN 1 ELSE 0)

\* directive = parseInput(&line, &cmd), where one allocation of the call may
\* return null; a failed allocation is charged to the budget of the run like
\* a frame
Parse ==
    /\ pc = "parse"
    /\ \E fail \in 0..(IF budget > 0 THEN Len(inToks) + 5 ELSE 0) :
          Return(parseInput(buf, line, mem, fail), fail)
    /\ UNCHANGED <<is_piped, _pipe_arr, fdt, pipes, fg, prevFg, bg, cwd,
                   env_HOME, inToks, last>>

\* strcmp(cmd._Command, CMD_CD) on the null command of an EXCEPTION frame:
\* the read of address 0 ends the process
DispatchNull ==
    /\ pc = "dispatch"
    /\ cmd._Command = NULL
    /\ pc' = "crashed"
    /\ last' = Did("null")
    /\ hist' = [hist EXCEPT !.ub = TRUE]
    /\ UNCHANGED <<buf, line, cmd, directive, is_piped, _pipe_arr, fdt, pipes,
                   fg, prevFg, bg, cwd, env_HOME, inToks, parsed, budget, mem>>

\* changeDirectory(cmd), which calls perror when getcwd or chdir fails, then
\* the frees and the loop condition
DispatchCd ==
    /\ pc = "dispatch"
    /\ cmd._Command = Chars("cd")
    /\ \E getcwdOk \in BOOLEAN :
          LET needCwd == cmd._Arg_Cnt # 0 /\ cmd._Args[1] # NULL
              path == IF needCwd /\ ~getcwdOk THEN NULL
                      ELSE CdPath(cmd, cwd, env_HOME)
              to == IF path = NULL THEN NULL ELSE Resolve(path)
              complains == (needCwd /\ ~getcwdOk) \/ (path # NULL /\ to = NULL)
          IN  /\ cwd' = IF to = NULL THEN cwd ELSE to
              /\ last' = [Did("cd") EXCEPT !.chdir = path, !.cwd0 = cwd]
              /\ mem' = FreeAll(IF complains THEN Perror(mem) ELSE mem,
                                FrameFrees(cmd))
    /\ pc' \in AfterFrees(cmd, hist.heap, directive)
    /\ UNCHANGED <<buf, line, cmd, directive, is_piped, _pipe_arr, fdt, pipes,
                   fg, prevFg, bg, env_HOME, inToks, parsed, hist, budget>>

\* the exit builtin: the frees, free(line), return 0
DispatchExit ==
    /\ pc = "dispatch"
    /\ cmd._Command = Chars("exit")
    /\ \/ ~FreesAbort(cmd) /\ pc' = "exited"
       \/ (line # 0 \/ hist.heap \/ FreesAbort(cmd)) /\ pc' = "crashed"
    /\ last' = Did("exit")
    /\ UNCHANGED <<buf, line, cmd, directive, is_piped, _pipe_arr, fdt, pipes,
                   fg, prevFg, bg, cwd, env_HOME, inToks, parsed, hist, budget,
                   mem>>

External == cmd._Command \notin {NULL, Chars("cd"), Chars("exit")}

\* how the process forked for a Parallel frame ends after its executeCommand
\* has returned: the frees, which on a damaged heap may end it, then
\* exit(EXIT_SUCCESS)
ParallelExits(f, damaged) ==
    IF FreesAbort(f) THEN {[code |-> 0, sig |-> SIGABRT]}
    ELSE {[code |-> 0, sig |-> 0]}
         \cup (IF damaged THEN {[code |-> 0, sig |-> SIGABRT]} ELSE {})

\* the process forked for a Parallel frame, whose executeCommand forked the
\* child c and waits for it: it holds what c holds for as long as c runs and
\* ends as e tells
ParallelChild(c, e) == [c EXCEPT !.code = e.code, !.sig = e.sig]

\* a Parallel frame: fork; the child runs executeCommand and exits, the parent
\* continues with the next frame, the frame unfreed; a failed fork calls
\* perror and leaves the loop
DispatchParallel ==
    /\ pc = "dispatch"
    /\ External
    /\ directive = "PARALLEL"
    /\ \/ /\ pc' = "waitall"
          /\ hist' = [hist EXCEPT !.resFail = TRUE]
          /\ last' = Did("par")
          /\ mem' = Perror(mem)
          /\ UNCHANGED bg
       \/ /\ pc' = "parse"
          /\ hist' = [hist EXCEPT !.par = TRUE]
          /\ UNCHANGED mem
          /\ \E e \in ParallelExits(cmd, hist.heap) :
             \/ /\ cmd._Command = <<>>           \* executeCommand returns
                /\ bg' = bg (+) SetToBag({ParallelChild(
                                   [NoChild EXCEPT !.st = "zombie"], e)})
                /\ last' = [Did("par") EXCEPT !.forked = TRUE]
             \/ /\ cmd._Command # <<>>           \* its fork fails: exit(1)
                /\ bg' = bg (+) SetToBag({FailedChild})
                /\ last' = [Did("par") EXCEPT !.forked = TRUE]
             \/ /\ cmd._Command # <<>>
                /\ \E o \in SyncChildOutcomes(cmd, SyncStdin(is_piped, _pipe_arr, fdt)) :
                      /\ bg' = bg (+) SetToBag({ParallelChild(o.child, e)})
                      /\ last' = Forked("par", o)
    /\ UNCHANGED <<buf, line, cmd, directive, is_piped, _pipe_arr, fdt, pipes,
                   fg, prevFg, cwd, env_HOME, inToks, parsed, budget>>

\* executeCommandPipe(cmd) up to its waitpid
DispatchPipe ==
    /\ pc = "dispatch"
    /\ External
    /\ directive = "PIPELINE"
    /\ LET r == LowestFree(DOMAIN fdt, 3)
           w == LowestFree(DOMAIN fdt \cup {r}, 3)
           p == LowestFree(DOMAIN pipes, 1)
       IN
       \/ /\ pc' = "exited"                       \* pipe() failed
          /\ hist' = [hist EXCEPT !.resFail = TRUE]
          /\ last' = Did("pipe")
          /\ UNCHANGED <<_pipe_arr, fdt, pipes, fg, prevFg>>
       \/ /\ pc' = "exited"                       \* fork() failed
          /\ hist' = [hist EXCEPT !.resFail = TRUE]
          /\ last' = Did("pipe")
          /\ _pipe_arr' = <<r, w>>
          /\ fdt' = (r :> [pipe |-> p, end |-> "r"])
                     @@ (w :> [pipe |-> p, end |-> "w"]) @@ fdt
          /\ pipes' = Live((p :> [data |-> <<>>, open |-> TRUE]) @@ pipes,
                           fdt', fg, bg)
          /\ UNCHANGED <<fg, prevFg>>
       \/    \E o \in PipeChildOutcomes(cmd, p) :
                 /\ pc' = "waitp"
                 /\ _pipe_arr' = <<r, w>>
                 /\ fdt' = (r :> [pipe |-> p, end |-> "r"]) @@ fdt
                 /\ prevFg' = fg
                 /\ fg' = o.child
                 /\ pipes' = Live((p :> [data |-> <<>>, open |-> o.child.st = "run"])
                                      @@ pipes, fdt', fg', bg)
                 /\ last' = Forked("pipe", o)
                 /\ UNCHANGED hist
    /\ UNCHANGED <<buf, line, cmd, directive, is_piped, bg, cwd, env_HOME,
                   inToks, parsed, budget, mem>>

\* the parent of executeCommandPipe after waitpid: is_piped = true, then the
\* frees and the loop condition
WaitPipe ==
    /\ pc = "waitp"
    /\ ChildExited(fg)
    /\ fg' = Reaped(fg)
    /\ is_piped' = TRUE
    /\ pc' \in AfterFrees(cmd, hist.heap, directive)
    /\ pipes' = Live(pipes, fdt, fg', bg)
    /\ mem' = FreeAll(mem, FrameFrees(cmd))
    /\ UNCHANGED <<buf, line, cmd, directive, _pipe_arr, fdt, prevFg, bg, cwd,
                   env_HOME, inToks, parsed, last, hist, budget>>

\* executeCommand(cmd) up to its waitpid
DispatchSync ==
    /\ pc = "dispatch"
    /\ External
    /\ directive \notin {"PARALLEL", "PIPELINE"}
    /\ \/ /\ cmd._Command = <<>>                  \* empty command: return
          /\ pc' \in AfterFrees(cmd, hist.heap, directive)
          /\ last' = Did("skip")
          /\ mem' = FreeAll(mem, FrameFrees(cmd))
          /\ UNCHANGED <<fg, prevFg, hist>>
       \/ /\ cmd._Command # <<>>                  \* fork() failed
          /\ pc' = "exited"
          /\ hist' = [hist EXCEPT !.resFail = TRUE]
          /\ last' = Did("sync")
          /\ UNCHANGED <<fg, prevFg, mem>>
       \/ /\ cmd._Command # <<>>
          /\ \E o \in SyncChildOutcomes(cmd, SyncStdin(is_piped, _pipe_arr, fdt)) :
                /\ pc' = "wait"
                /\ prevFg' = fg
                /\ fg' = o.child
                /\ last' = Forked("sync", o)
                /\ UNCHANGED <<hist, mem>>
    /\ UNCHANGED <<buf, line, cmd, directive, is_piped, _pipe_arr, fdt, pipes,
                   bg, cwd, env_HOME, inToks, parsed, budget>>

\* the parent of executeCommand after waitpid: pipeReset, then the frees and
\* the loop condition
WaitSync ==
    /\ pc = "wait"
    /\ ChildExited(fg)
    /\ fg' = Reaped(fg)
    /\ LET r == pipeReset(Relay) IN
          /\ is_piped' = r.is_piped
          /\ _pipe_arr' = r.arr
          /\ fdt' = r.fdt
          /\ last' = [last EXCEPT !.badclose = r.badclose]
    /\ pc' \in AfterFrees(cmd, hist.heap, directive)
    /\ pipes' = Live(pipes, fdt', fg', bg)
    /\ mem' = FreeAll(mem, FrameFrees(cmd))
    /\ UNCHANGED <<buf, line, cmd, directive, prevFg, bg, cwd, env_HOME,
                   inToks, parsed, hist, budget>>

\* while (wait(&status) > 0): one child reaped
WaitAllReap ==
    /\ pc = "waitall"
    /\ \E c \in BagToSet(bg) :
          /\ c.st = "zombie"
          /\ bg' = bg (-) SetToBag({c})
    /\ UNCHANGED <<pc, buf, line, cmd, directive, is_piped, _pipe_arr, fdt,
                   pipes, fg, prevFg, cwd, env_HOME, inToks, parsed, last,
                   hist, budget, mem>>

\* wait returns -1: no child is left
WaitAllDone ==
    /\ pc = "waitall"
    /\ bg = EmptyBag
    /\ pc' = "read"
    /\ UNCHANGED <<buf, line, cmd, directive, is_piped, _pipe_arr, fdt, pipes,
                   fg, prevFg, bg, cwd, env_HOME, inToks, parsed, last, hist,
                   budget, mem>>

-----------------------------------------------------------------------------
(* The external commands.                                                  *)

\* write(1, ...) into a pipe: as many bytes as fit
Written(c, ps) ==
    LET room == PipeCap - Len(ps[c.stdout].data)
        k == IF room < c.toWrite THEN room ELSE c.toWrite
        bytes == [i \in 1..k |-> Len(c.wrote) + i]
    IN  [child |-> [c EXCEPT !.toWrite = @ - k, !.wrote = @ \o bytes],
         pipes |-> [ps EXCEPT ![c.stdout].data = @ \o bytes]]

CanWrite(c, ps) ==
    c.st = "run" /\ c.toWrite > 0 /\ Len(ps[c.stdout].data) < PipeCap

\* read(0, ...) from a pipe: everything buffered
CanRead(c, ps) ==
    c.st = "run" /\ c.stdin # 0 /\ ps[c.stdin].data # <<>>

WasRead(c, ps) ==
    [child |-> [c EXCEPT !.got = @ \o ps[c.stdin].data],
     pipes |-> [ps EXCEPT ![c.stdin].data = <<>>]]

\* the command has written its output and seen the end of its input
CanExit(c, ps) ==
    /\ c.st = "run"
    /\ c.toWrite = 0
    /\ c.stdin # 0 => (ps[c.stdin].data = <<>> /\ ~ps[c.stdin].open)

Exited(c, ps) ==
    [child |-> [c EXCEPT !.st = "zombie"],
     pipes |-> IF c.stdout # 0 THEN [ps EXCEPT ![c.stdout].open = FALSE] ELSE ps]

FgStep ==
    /\ \/ CanWrite(fg, pipes) /\ LET r == Written(fg, pipes) IN
             fg' = r.child /\ pipes' = Live(r.pipes, fdt, r.child, bg)
       \/ CanRead(fg, pipes) /\ LET r == WasRead(fg, pipes) IN
             fg' = r.child /\ pipes' = Live(r.pipes, fdt, r.child, bg)
       \/ CanExit(fg, pipes) /\ LET r == Exited(fg, pipes) IN
             fg' = r.child /\ pipes' = Live(r.pipes, fdt, r.child, bg)
    /\ UNCHANGED <<pc, buf, line, cmd, directive, is_piped, _pipe_arr, fdt,
                   prevFg, bg, cwd, env_HOME, inToks, parsed, last, hist, budget,
                   mem>>

BgStep ==
    /\ \E c \in BagToSet(bg) :
          \/ CanRead(c, pipes) /\ LET r == WasRead(c, pipes) IN
                /\ bg' = (bg (-) SetToBag({c})) (+) SetToBag({r.child})
                /\ pipes' = Live(r.pipes, fdt, fg, bg')
          \/ CanExit(c, pipes) /\ LET r == Exited(c, pipes) IN
                /\ bg' = (bg (-) SetToBag({c})) (+) SetToBag({r.child})
                /\ pipes' = Live(r.pipes, fdt, fg, bg')
    /\ UNCHANGED <<pc, buf, line, cmd, directive, is_piped, _pipe_arr, fdt,
                   fg, prevFg, cwd, env_HOME, inToks, parsed, last, hist, budget,
                   mem>>

Next ==
    \/ ReadLine
    \/ ReadEOF
    \/ Parse
    \/ DispatchNull
    \/ DispatchCd
    \/ DispatchExit
    \/ DispatchParallel
    \/ DispatchPipe
    \/ WaitPipe
    \/ DispatchSync
    \/ WaitSync
    \/ WaitAllReap
    \/ WaitAllDone
    \/ FgStep
    \/ BgStep

Spec == Init /\ [][Next]_vars

-----------------------------------------------------------------------------
(* Lines of tokens: one line of ParseLines is read and run to its end.  No *)
(* builtin occurs on these lines.                                          *)

ParserRead == ReadFrom(ParseLines, budget)

NextParser ==
    \/ ParserRead
    \/ Parse
    \/ DispatchNull
    \/ DispatchParallel
    \/ DispatchPipe
    \/ WaitPipe
    \/ DispatchSync
    \/ WaitSync
    \/ WaitAllReap
    \/ WaitAllDone
    \/ FgStep
    \/ BgStep

SpecParser == Init /\ [][NextParser]_vars

-----------------------------------------------------------------------------
(* Properties of the shell (checked under Spec).                           *)

LastParsed == parsed[Len(parsed)]

\* the frame the last dispatch of this line was given
LastFrame == parsed[last.n].cmd

\* a line `cmd1 | cmd2` of two programs has been run to the end
PipedPairDone ==
    /\ Len(parsed) = 2
    /\ parsed[1].directive = "PIPELINE"
    /\ parsed[2].directive = "TERMINATED"
    /\ last.kind = "sync"
    /\ last.n = 2
    /\ fg.st = "reaped"
    /\ fg.ran
    /\ prevFg.ran

\* C1: after both frames of `cmd1 | cmd2` have run, cmd2 has read from its
\* stdin exactly the bytes cmd1 wrote to its stdout, the relay is idle
\* (is_piped false, both slots -1) and the interpreter holds no descriptor of
\* the pipe.
C1_PipePairDelivers ==
    PipedPairDone =>
        /\ fg.stdin # 0
        /\ fg.got = prevFg.wrote
        /\ ~is_piped
        /\ _pipe_arr = <<-1, -1>>
        /\ \A d \in DOMAIN fdt : fdt[d].pipe # fg.stdin

C1_Witness == PipedPairDone /\ fg.got # <<>>

\* C4: the argv handed to exec is the command, the options in order, then the
\* positional arguments up to but excluding the token `>`, on every dispatch
\* path.
C4_ArgvStopsAtRedirection ==
    last.argv # NULLS =>
        last.argv = <<LastFrame._Command>>
                        \o SubSeq(LastFrame._Opts, 1, LastFrame._Opt_Cnt)
                        \o UpToRedirection(SubSeq(LastFrame._Args, 1,
                                                   LastFrame._Arg_Cnt))

\* C5: when a line dispatched a Parallel frame, no child is left unreaped when
\* the interpreter is about to read the next line (in a run that executed no
\* undefined operation).
C5_ParallelReapedBeforeRead ==
    (pc = "read" /\ hist.par /\ ~hist.ub) => bg = EmptyBag

\* C6: when the next frame is about to be parsed after a Sequential or
\* Pipeline frame, the process forked for that frame has exited, with all its
\* output written, and has been waited for.
C6_LeftToRight ==
    (/\ pc = "parse"
     /\ parsed # <<>>
     /\ LastParsed.directive \in {"SEQUENTIAL", "PIPELINE"}
     /\ last.forked)
    => (fg.st = "reaped" /\ fg.toWrite = 0)

C6_Witness ==
    /\ pc = "parse"
    /\ parsed # <<>>
    /\ LastParsed.directive = "PIPELINE"
    /\ last.forked
    /\ fg.wrote # <<>>

\* C7: after parseInput returned EXCEPTION nothing is dispatched for the
\* frame and the interpreter, alive, is back at reading the next line.
C7_ExceptionAbortsLineOnly ==
    (parsed # <<>> /\ LastParsed.directive = "EXCEPTION" /\ pc # "dispatch")
    => (pc = "read" /\ last.kind = "null" /\ ~last.forked)

\* C8: once a fork or a pipe creation has failed in the interpreter process,
\* the interpreter has terminated.
C8_ResourceFailureIsFatal ==
    hist.resFail => pc = "exited"

\* C9: a child whose exec failed printed the diagnostic and exited non-zero;
\* a failed chdir left the working directory as it was; the interpreter is
\* alive in both cases.
C9_FailuresAreContained ==
    /\ last.exec = "fail" =>
           (last.diag /\ last.code # 0 /\ pc \notin {"exited", "crashed"})
    /\ (last.kind = "cd" /\ last.chdir # NULL /\ Resolve(last.chdir) = NULL) =>
           (cwd = last.cwd0 /\ pc \notin {"exited", "crashed"})

\* C10: dispatching `cd` forks nothing, and the path handed to chdir is HOME
\* when the frame has no argument, a first argument whose copy is null being
\* none (no chdir at all without HOME), the working
\* directory joined with "/.." when the argument is "..", and the working
\* directory joined with "/" and the argument otherwise, absolute or not (no
\* chdir at all when getcwd fails).
C10_CdTarget ==
    [][(pc = "dispatch" /\ pc' # "dispatch" /\ cmd._Command = Chars("cd")) =>
          /\ fg' = fg
          /\ bg' = bg
          /\ ~last'.forked
          /\ IF cmd._Arg_Cnt = 0 \/ cmd._Args[1] = NULL
             THEN last'.chdir = env_HOME
             ELSE IF cmd._Args[1] = Chars("..")
             THEN last'.chdir \in {NULL, cwd \o Chars("/..")}
             ELSE last'.chdir \in {NULL, cwd \o Chars("/") \o cmd._Args[1]}
          /\ last'.chdir = NULL => cwd' = cwd
      ]_vars

C10_Witness ==
    /\ last.kind = "cd"
    /\ last.cwd0 = Chars("/h/b")
    /\ last.chdir = Chars("/h/b/..")
    /\ cwd = Chars("/h")

-----------------------------------------------------------------------------
(* Properties of the parser (checked under SpecParser).                    *)

IsOp(t) == t \in Ops

\* the typed tokens form frames joined by control operators: no empty token,
\* no redirection, a frame before and after every operator
PlainLine(toks) ==
    /\ toks # <<>>
    /\ \A i \in 1..Len(toks) :
          /\ toks[i] # ""
          /\ \A k \in 1..Len(toks[i]) : SubSeq(toks[i], k, k) # ">"
    /\ ~IsOp(toks[1])
    /\ ~IsOp(toks[Len(toks)])
    /\ \A i \in 1..(Len(toks) - 1) : ~(IsOp(toks[i]) /\ IsOp(toks[i + 1]))

\* the frames of a plain line, read off its tokens
RECURSIVE TypedFrames(_)
TypedFrames(toks) ==
    LET ops == {i \in 1..Len(toks) : IsOp(toks[i])}
        e == IF ops = {} THEN Len(toks) + 1
             ELSE CHOOSE i \in ops : \A j \in ops : i <= j
        rest == [i \in 1..(e - 2) |-> toks[i + 1]]
        dash(t) == SubSeq(t, 1, 1) = "-"
        fr == [command |-> Chars(toks[1]),
               args |-> [i \in 1..Len(SelectSeq(rest, LAMBDA t : ~dash(t)))
                            |-> Chars(SelectSeq(rest, LAMBDA t : ~dash(t))[i])],
               opts |-> [i \in 1..Len(SelectSeq(rest, dash))
                            |-> Chars(SelectSeq(rest, dash)[i])],
               directive |-> IF ops = {} THEN "TERMINATED"
                             ELSE IF toks[e] = "&&" THEN "PARALLEL"
                             ELSE IF toks[e] = "##" THEN "SEQUENTIAL"
                             ELSE "PIPELINE"]
    IN  IF ops = {} THEN <<fr>>
        ELSE <<fr>> \o TypedFrames(SubSeq(toks, e + 1, Len(toks)))

\* C2: on a line of frames joined by control operators the k-th parseInput
\* call returns the k-th frame typed, its command, arguments and options in
\* token order, with the directive of the operator after it, TERMINATED for
\* the last; there are as many calls as frames when no fork or pipe failure
\* has ended the loop.
C2_FramesInOrder ==
    PlainLine(inToks) =>
        LET want == TypedFrames(inToks) IN
        /\ Len(parsed) <= Len(want)
        /\ \A k \in 1..Len(parsed) :
              /\ parsed[k].cmd._Command = want[k].command
              /\ parsed[k].cmd._Args = want[k].args
              /\ parsed[k].cmd._Opts = want[k].opts
              /\ parsed[k].directive = want[k].directive
        /\ (pc = "read" /\ parsed # <<>> /\ ~hist.resFail) =>
               Len(parsed) = Len(want)

C2_Witness ==
    /\ inToks = <<"a", "f", "##", "f">>
    /\ Len(parsed) = 2
    /\ parsed[1].directive = "SEQUENTIAL"
    /\ parsed[1].cmd._Args = <<Chars("f")>>
    /\ parsed[2].directive = "TERMINATED"
    /\ parsed[2].cmd._Command = Chars("f")

CmdNames == {"a", "f"}
FileNames == {"a", "f", "-o", "&&", ">", "f>a"}

\* C3: the last frame `c > f` and the line `c>f` both parse to command c with
\* redirection target f.
C3_RedirectionTarget ==
    \A c \in CmdNames, f \in FileNames :
        (parsed # <<>> /\ inToks \in {<<c, ">", f>>, <<c \o ">" \o f>>}) =>
            /\ Len(parsed) = 1
            /\ parsed[1].directive = "TERMINATED"
            /\ parsed[1].cmd._Command = Chars(c)
            /\ parsed[1].cmd.redirection_file = Chars(f)

C3_Witness ==
    /\ inToks = <<"a>f">>
    /\ parsed # <<>>
    /\ parsed[1].cmd._Command = Chars("a")
    /\ parsed[1].cmd.redirection_file = Chars("f")

-----------------------------------------------------------------------------
(* Lines of external commands joined by `|` and `##`: one such line is     *)
(* read and run to its end.  No builtin, no Parallel frame and no dangling *)
(* operator occurs on these lines, so only the two executors act.          *)

PipeFrames == {<<"a">>, <<"x">>}

PipeOps == {"|", "##"}

RECURSIVE StageLines(_)
StageLines(n) ==
    IF n = 1 THEN PipeFrames
    ELSE {l \o <<op>> \o f : l \in StageLines(n - 1), op \in PipeOps,
                             f \in PipeFrames}

PipeLines == UNION {StageLines(n) : n \in 1..MaxStages}

ReadPipeLine == ReadFrom(PipeLines, budget)

NextPipe ==
    \/ ReadPipeLine
    \/ Parse
    \/ DispatchPipe
    \/ WaitPipe
    \/ DispatchSync
    \/ WaitSync
    \/ FgStep

SpecPipe == Init /\ [][NextPipe]_vars

\* a line `a | b | c` of three programs has been run to the end
PipedTripleDone ==
    /\ Len(parsed) = 3
    /\ parsed[1].directive = "PIPELINE"
    /\ parsed[2].directive = "PIPELINE"
    /\ parsed[3].directive = "TERMINATED"
    /\ last.kind = "sync"
    /\ last.n = 3
    /\ last.exec = "ok"
    /\ fg.st = "reaped"
    /\ fg.ran
    /\ prevFg.ran

\* C11: after a line `a | b | c` of three external commands has run, the
\* stdin of c is not the pipe that b wrote its stdout to.
C11_ThirdNotFedBySecond ==
    PipedTripleDone => fg.stdin # prevFg.stdout

-----------------------------------------------------------------------------
(* The relay between dispatches (checked under Spec).                      *)

\* the dispatch of the frame parsed last has returned to the driver loop
DispatchReturned ==
    /\ pc \in {"parse", "read"}
    /\ parsed # <<>>
    /\ last.n = Len(parsed)
    /\ last.kind \in {"cd", "skip", "sync", "par", "pipe"}

\* C12: after the dispatch of a frame whose directive is not Pipeline the
\* relay is idle (is_piped false, both slots -1) and the interpreter holds no
\* pipe descriptor; at most one pipe is open at any time.
C12_RelayResetAfterEveryFrame ==
    /\ (DispatchReturned /\ LastParsed.directive # "PIPELINE" /\ ~hist.ub) =>
           (~is_piped /\ _pipe_arr = <<-1, -1>> /\ fdt = EmptyMap)
    /\ Cardinality({fdt[d].pipe : d \in DOMAIN fdt}) <= 1

-----------------------------------------------------------------------------
(* The cursor over the tokens of a line (checked under SpecParser).        *)

\* the tokens of the line after the trims: blanks at both ends are gone
RECURSIVE LineTokens(_)
LineTokens(toks) ==
    IF toks = <<>> THEN <<"">>
    ELSE IF Len(toks) > 1 /\ Head(toks) = "" THEN LineTokens(Tail(toks))
    ELSE IF Len(toks) > 1 /\ toks[Len(toks)] = ""
    THEN LineTokens(SubSeq(toks, 1, Len(toks) - 1))
    ELSE toks

\* the index in the line buffer at which token number t starts
RECURSIVE TokenStart(_, _)
TokenStart(toks, t) ==
    IF t = 1 THEN 1 ELSE TokenStart(toks, t - 1) + Len(toks[t - 1]) + 1

\* the tokens from number i on, taken one by one for the frame fr until a
\* control operator or the end of the line
RECURSIVE FrameWalk(_, _, _)
FrameWalk(toks, i, fr) ==
    IF i > Len(toks)
    THEN [fr EXCEPT !.directive = "TERMINATED", !.next = i]
    ELSE IF IsOp(toks[i])
    THEN [fr EXCEPT !.directive = OperatorDirective(Chars(toks[i])),
                    !.next = i + 1]
    ELSE IF toks[i] = ">"
    THEN IF i + 1 > Len(toks)
         THEN FrameWalk(toks, i + 1,
                        [fr EXCEPT !.args = Append(@, Chars(">")),
                                   !.target = NULL])
         ELSE FrameWalk(toks, i + 2,
                        [fr EXCEPT !.args = Append(@, Chars(">")),
                                   !.target = Chars(toks[i + 1])])
    ELSE IF toks[i] # "" /\ SubSeq(toks[i], 1, 1) = "-"
    THEN FrameWalk(toks, i + 1, [fr EXCEPT !.opts = Append(@, Chars(toks[i]))])
    ELSE FrameWalk(toks, i + 1, [fr EXCEPT !.args = Append(@, Chars(toks[i]))])

\* the frames of a line, each with the number of the token after it
RECURSIVE WalkedFrames(_, _)
WalkedFrames(toks, i) ==
    IF i > Len(toks) THEN <<>>
    ELSE LET fr == FrameWalk(toks, i + 1,
                             [command |-> Chars(toks[i]), args |-> <<>>,
                              opts |-> <<>>, target |-> NULL,
                              directive |-> "", next |-> 0])
         IN  <<fr>> \o WalkedFrames(toks, fr.next)

\* the frame a walked frame stands for: the last frame of a line has its
\* command cut at an embedded '>'
AsFrame(w) ==
    LET f == [_Command |-> w.command, _Cmf_Len |-> Len(w.command),
              _Args |-> w.args, _Arg_Cnt |-> Len(w.args),
              _Opts |-> w.opts, _Opt_Cnt |-> Len(w.opts),
              redirection_file |-> w.target]
        hits == {k \in 1..Len(w.command) : w.command[k] = ">"}
        i == CHOOSE k \in hits : \A h \in hits : k <= h
    IN  IF w.directive # "TERMINATED" \/ hits = {} THEN f
        ELSE IF i = Len(w.command)
        THEN [f EXCEPT !._Command = SubSeq(w.command, 1, i - 1)]
        ELSE [f EXCEPT !._Command = SubSeq(w.command, 1, i - 1),
                       !.redirection_file = SubSeq(w.command, i + 1,
                                                   Len(w.command))]

FrameFields ==
    {"_Command", "_Cmf_Len", "_Args", "_Arg_Cnt", "_Opts", "_Opt_Cnt",
     "redirection_file"}

\* C13: the k-th parse call of a line returns the frame made of the tokens
\* that follow those of the calls before it, and leaves the cursor at the
\* start of the first token it has not consumed (null when none is left); the
\* cursor never moves back; a call on the exhausted cursor consumes nothing;
\* when the loop is left, no fork or pipe failure having ended it, every
\* token has been consumed.
C13_CursorConsumesEachTokenOnce ==
    LET toks == LineTokens(inToks)
        want == WalkedFrames(toks, 1)
    IN  /\ \A k \in 1..Len(parsed) :
              IF k <= Len(want)
              THEN /\ \A fld \in FrameFields :
                         parsed[k].cmd[fld] = AsFrame(want[k])[fld]
                   /\ parsed[k].directive = want[k].directive
                   /\ parsed[k].rest = IF want[k].next > Len(toks) THEN 0
                                       ELSE TokenStart(toks, want[k].next)
                   /\ k > 1 => parsed[k - 1].rest # 0
                   /\ (k > 1 /\ parsed[k].rest # 0) =>
                          parsed[k].rest > parsed[k - 1].rest
              ELSE /\ k = Len(want) + 1
                   /\ parsed[k].directive = "EXCEPTION"
                   /\ parsed[k].cmd = NullFrame
                   /\ parsed[k].rest = 0
        /\ (pc = "read" /\ parsed # <<>> /\ ~hist.resFail) =>
               (LastParsed.rest = 0 /\ Len(parsed) >= Len(want))

C13_Witness ==
    /\ inToks = <<"a", "-o", "&&", "f">>
    /\ pc = "read"
    /\ Len(parsed) = 2
    /\ parsed[1].rest = 9
    /\ parsed[2].rest = 0

\* C14: pipeReset closes only descriptors that are open in the interpreter,
\* and a reset right after a reset closes nothing and leaves the relay idle.
C14_ResetNeverDoubleCloses ==
    /\ ~last.badclose
    /\ LET once == pipeReset(Relay)
           twice == pipeReset([once EXCEPT !.badclose = FALSE])
       IN  /\ twice.fdt = once.fdt
           /\ twice.arr = <<-1, -1>>
           /\ ~twice.is_piped
           /\ ~twice.badclose

-----------------------------------------------------------------------------
(* The heap blocks of a frame (checked under Spec).                        *)

\* the embedded-'>' scan replaced the command: its first copy is left
ScanReplacedCommand(f) == f.store.ptr # 0

\* the name of the block of the frame at the given word
BlockName(f, at) ==
    IF at = f.store.cmd THEN "_Command"
    ELSE IF at = f.store.args THEN "_Args"
    ELSE IF at = f.store.opts THEN "_Opts"
    ELSE IF at = f.store.ptr THEN "ptr"
    ELSE IF at = f.store.file THEN "redirection_file"
    ELSE "token"

\* the heap blocks parseInput allocated for the frame and left allocated: the
\* command, the two arrays, a copy of every argument and option; after the
\* scan also the first copy of the command ("ptr") and, when text follows the
\* '>', the copy of the target.  A target taken from the line is no block.
FrameBlocks(f) ==
    {<<BlockName(f, at), at>> :
        at \in ({f.store.str[k].at : k \in 1..Len(f.store.str)}
                \cup {f.store.args, f.store.opts}) \ ({0} \cup f.store.gone)}

\* the blocks of the frame the interpreter frees after a dispatch of the
\* given kind: the frees at the end of the loop body and those of the exit
\* branch; the Parallel branch leaves the loop body before them
ReleasedBlocks(f, kind) ==
    IF kind = "par" THEN {}
    ELSE {<<BlockName(f, at), at>> :
             at \in {FrameFrees(f)[k].at : k \in 1..Len(FrameFrees(f))}
                    \ ({0} \cup f.store.gone)}

\* C15: when the dispatch of a frame has returned to the driver loop, every
\* heap block of the frame has been freed.
C15_FrameReleasedAfterDispatch ==
    DispatchReturned =>
        FrameBlocks(LastFrame) \ ReleasedBlocks(LastFrame, last.kind) = {}

-----------------------------------------------------------------------------
(* Directives and the exhausted cursor (checked under SpecParser).         *)

\* C16: a parse call that leaves the cursor exhausted returns TERMINATED, and
\* no parse call is made on an exhausted cursor.
C16_ExhaustedMeansTerminated ==
    \A k \in 1..Len(parsed) :
        /\ parsed[k].rest = 0 => parsed[k].directive = "TERMINATED"
        /\ k > 1 => parsed[k - 1].rest # 0

\* C17: every parse call that returns a directive other than EXCEPTION
\* returns a frame with a non-empty command.
C17_NoFrameWithoutCommand ==
    \A k \in 1..Len(parsed) :
        parsed[k].directive # "EXCEPTION" =>
            (parsed[k].cmd._Command # NULL /\ parsed[k].cmd._Command # <<>>)

-----------------------------------------------------------------------------
(* Long frames: one command followed by up to MaxLong tokens, alternating  *)
(* between two kinds of token, or by an option and MaxLong arguments; and  *)
(* frames built while an allocation fails.                                 *)

LongTokens == {"b", "-o", ">"}

LongLines ==
    {<<"a">> \o [i \in 1..n |-> IF i % 2 = 1 THEN t1 ELSE t2] :
        n \in 0..MaxLong, t1 \in LongTokens, t2 \in LongTokens}
    \cup {<<"a", "-o">> \o [i \in 1..MaxLong |-> "b"]}
    \cup {<<"a>f">>, <<"a>f", "b">>, <<"a", "b", "|", "a">>}

\* the line takes the whole budget but the unit of one failed allocation
ReadLong == ReadFrom(LongLines, budget - 1)

NextLong ==
    \/ ReadLong
    \/ Parse
    \/ DispatchNull
    \/ DispatchPipe
    \/ WaitPipe
    \/ DispatchSync
    \/ WaitSync
    \/ FgStep

SpecLong == Init /\ [][NextLong]_vars

\* C18: a frame never holds more than ARGSMAX arguments or more than OPTSMAX
\* options, and parseInput never stores past the end of either array.
C18_CountsWithinCapacity ==
    \A k \in 1..Len(parsed) :
        /\ parsed[k].cmd._Command # NULL =>
               /\ Len(parsed[k].cmd._Args) <= ARGSMAX
               /\ Len(parsed[k].cmd._Opts) <= OPTSMAX
        /\ parsed[k].cmd._Arg_Cnt <= ARGSMAX
        /\ parsed[k].cmd._Opt_Cnt <= OPTSMAX
        /\ parsed[k].ub \cap {"args_out_of_bounds", "opts_out_of_bounds"} = {}

-----------------------------------------------------------------------------
(* Progress of a Pipeline dispatch (checked under SpecPipe).               *)

\* the interpreter waits for the writer while the writer waits for room in
\* the pipe, which only a later frame could read
WriterAndInterpreterBlocked ==
    /\ pc = "waitp"
    /\ fg.st = "run"
    /\ fg.toWrite > 0
    /\ Len(pipes[fg.stdout].data) >= PipeCap

\* C19: the interpreter and the writer of a Pipeline frame never block on
\* each other, whatever the writer's output is.
C19_PipelineDispatchCompletes == ~WriterAndInterpreterBlocked

-----------------------------------------------------------------------------
(* Pointers handed to free and to getline (checked under Spec).            *)

\* the line pointer is null or the start of the line buffer
NullOrBufferStart(p) == p \in {0, 1}

\* C20: the line pointer freed by `exit` and the line pointer handed to
\* getline are null or the start of the line buffer, and no parse call frees
\* a redirection target that lies inside the line buffer.
C20_OnlyHeapBlocksReleased ==
    /\ last.kind = "exit" => NullOrBufferStart(line)
    /\ pc = "read" => NullOrBufferStart(line)
    /\ \A k \in 1..Len(parsed) : "free_of_line_pointer" \notin parsed[k].ub

====
